---- MODULE Spec2Model ----
(***************************************************************************)
(* File-based contact book (kunal.py): class ContactBook over one backing  *)
(* file, in JSON or CSV format.                                            *)
(*                                                                         *)
(* Text is a sequence of one-character strings, so that str.strip() is     *)
(* computed and not assumed.  A contact (a Python dict) is a function from *)
(* its keys to text.  The file holds what the serializer wrote: a JSON     *)
(* value whose objects are sequences of <<key, value>> members, or a CSV   *)
(* table (a header row and data rows of cells).  Several ContactBook       *)
(* objects may be open on the same path.                                   *)
(***************************************************************************)
EXTENDS Integers, Sequences, FiniteSets, TLC

VARIABLES
    suffix,     \* self.path.suffix of the one path every book is opened on
    file,       \* content of the file at path
    bak,        \* content of the file at path + ".bak"
    state,      \* per book: "new" (not constructed) or "open"
    contacts,   \* per book: self.contacts
    ret,        \* the last call: operation, book, arguments, outcome
    nUuid,      \* number of uuid4 values generated so far
    nCalls,     \* number of method calls made on the books so far
    fresh,      \* books that loaded or wrote the file after its last write
    known       \* per book: the generated ids its collection has ever held

vars == <<suffix, file, bak, state, contacts, ret, nUuid, nCalls, fresh, known>>

(* ----------------------------- bounds --------------------------------- *)

\* add_contact is enabled while fewer than MaxUuid ids have been generated.
MaxUuid == 2

\* A method is called on a book while fewer than MaxCalls calls were made.
MaxCalls == 3

Books == {1, 2}

(* ------------------------------ text ---------------------------------- *)

DEFAULT_FIELDS == <<"id", "name", "phone", "email", "notes">>

FieldSet == {DEFAULT_FIELDS[i] : i \in 1..Len(DEFAULT_FIELDS)}

Whitespace == {" ", "\t"}

E == <<>>
A == <<"a">>
B == <<"b">>
X == <<"x">>
Y == <<"y">>
Z == <<"z">>

\* Python's None, where a value may be absent (DictReader restval, kwargs).
None == <<"<None>">>

RECURSIVE lstrip(_)
lstrip(s) == IF s # <<>> /\ Head(s) \in Whitespace THEN lstrip(Tail(s)) ELSE s

RECURSIVE rstrip(_)
rstrip(s) ==
    IF s # <<>> /\ s[Len(s)] \in Whitespace
    THEN rstrip(SubSeq(s, 1, Len(s) - 1))
    ELSE s

\* A bug that strips the left end only.
strip_left_only(s) == lstrip(s)

strip(s) == rstrip(lstrip(s))

Digit == <<"1", "2", "3", "4", "5", "6", "7", "8", "9">>

\* str(uuid.uuid4()): the n-th generated id.  Generated ids are pairwise
\* distinct and distinct from every id a file provides (X, Y).
uuid4(n) == <<"u", Digit[n]>>

\* dict.get(k, d)
Get(c, k, d) == IF k \in DOMAIN c THEN c[k] ELSE d

EmptyDict == [k \in {} |-> E]

(* --------------------------- file content ----------------------------- *)

Content(kind, root, items, header, rows, tok) ==
    [kind |-> kind, root |-> root, items |-> items,
     header |-> header, rows |-> rows, tok |-> tok]

NoFile == Content("absent", "", <<>>, <<>>, <<>>, 0)

\* Text that is not valid JSON; tok tells one such content from another.
Garbage(tok) == Content("garbage", "", <<>>, <<>>, <<>>, tok)

\* Bytes that are not UTF-8 text (the file is opened with encoding="utf-8").
Undecodable == Content("undecodable", "", <<>>, <<>>, <<>>, 0)

JsonArray(items) == Content("json", "array", items, <<>>, <<>>, 0)

JsonRootObject == Content("json", "object", <<>>, <<>>, <<>>, 0)

CsvTable(header, rows) == Content("csv", "", <<>>, header, rows, 0)

_detect_filetype(sfx) ==
    IF sfx = ".json" THEN "json"
    ELSE IF sfx = ".csv" THEN "csv"
    ELSE "json"

(* ------------------------------- JSON --------------------------------- *)

\* json.load of one object: members in order, a repeated key keeps the last.
RECURSIVE dict_of_members(_)
dict_of_members(ms) ==
    IF ms = <<>> THEN EmptyDict
    ELSE LET d == dict_of_members(SubSeq(ms, 1, Len(ms) - 1))
             m == ms[Len(ms)]
         IN  [k \in DOMAIN d \cup {m[1]} |-> IF k = m[1] THEN m[2] ELSE d[k]]

\* Member order of a written object: the known fields, then any other key.
KeyOrder == DEFAULT_FIELDS \o <<"extra">>

\* A bug that writes the five known keys of every record, "" for a missing one.
members_five_keys(c) ==
    [i \in 1..Len(DEFAULT_FIELDS) |->
        <<DEFAULT_FIELDS[i], Get(c, DEFAULT_FIELDS[i], E)>>]

\* json.dump of one dict: every key the dict has, with its value.
members_of_dict(c) ==
    LET keys == SelectSeq(KeyOrder, LAMBDA k : k \in DOMAIN c)
    IN  [i \in 1..Len(keys) |-> <<keys[i], c[keys[i]]>>]

json_dump(cs) == JsonArray([i \in 1..Len(cs) |-> members_of_dict(cs[i])])

\* json.load and the isinstance(data, list) test of _load.
json_load(content) ==
    IF content.kind = "undecodable"
    THEN [err |-> "UnicodeDecodeError", data |-> <<>>]
    ELSE IF content.kind # "json"
    THEN [err |-> "JSONDecodeError", data |-> <<>>]
    ELSE IF content.root # "array"
    THEN [err |-> "NotAList", data |-> <<>>]
    ELSE [err |-> "",
          data |-> [i \in 1..Len(content.items) |->
                       dict_of_members(content.items[i])]]

(* -------------------------------- CSV --------------------------------- *)

LastIndex(header, k) ==
    CHOOSE j \in 1..Len(header) :
        header[j] = k /\ \A i \in (j + 1)..Len(header) : header[i] # k

\* csv.DictReader's row: dict(zip(fieldnames, row)), restval None for the
\* columns a short row lacks; cells past the header go under the None key,
\* which the program never reads.
DictReader_row(header, row) ==
    [k \in {header[j] : j \in 1..Len(header)} |->
        IF LastIndex(header, k) <= Len(row)
        THEN row[LastIndex(header, k)]
        ELSE None]

\* A bug that keeps the rows whose id is empty.
keep_row_any(row) == TRUE

\* not (not row.get("id"))
keep_row(row) == Get(row, "id", None) \notin {None, E}

\* {k: (row.get(k, "") or "") for k in DEFAULT_FIELDS}
normalized(row) ==
    [k \in FieldSet |-> IF Get(row, k, E) \in {None, E} THEN E ELSE row[k]]

\* The csv branch of _load; DictReader skips the rows that have no cell.
csv_load(content) ==
    LET rows  == SelectSeq(content.rows, LAMBDA r : r # <<>>)
        dicts == [i \in 1..Len(rows) |-> DictReader_row(content.header, rows[i])]
        kept  == SelectSeq(dicts, keep_row)
    IN  IF content.kind = "undecodable"
        THEN [err |-> "UnicodeDecodeError", data |-> <<>>]
        ELSE [err |-> "", data |-> [i \in 1..Len(kept) |-> normalized(kept[i])]]

\* A bug that writes the notes column empty.
csv_row_no_notes(c) ==
    [i \in 1..Len(DEFAULT_FIELDS) |->
        IF DEFAULT_FIELDS[i] = "notes" THEN E ELSE Get(c, DEFAULT_FIELDS[i], E)]

\* row = {k: c.get(k, "") for k in DEFAULT_FIELDS}; writer.writerow(row)
csv_row(c) ==
    [i \in 1..Len(DEFAULT_FIELDS) |-> Get(c, DEFAULT_FIELDS[i], E)]

csv_dump(cs) == CsvTable(DEFAULT_FIELDS, [i \in 1..Len(cs) |-> csv_row(cs[i])])

(* --------------------------- load and save ---------------------------- *)

\* What _save writes to path.
_save(ft, cs) == IF ft = "json" THEN json_dump(cs) ELSE csv_dump(cs)

\* The parse of _load on an existing file.
_parse(ft, content) ==
    IF ft = "json" THEN json_load(content) ELSE csv_load(content)

filetype == _detect_filetype(suffix)

(* ------------------------------ lookup -------------------------------- *)

Stops(cs, id) ==
    {i \in 1..Len(cs) : "id" \notin DOMAIN cs[i] \/ cs[i]["id"] = id}

Min(S) == CHOOSE i \in S : \A j \in S : i <= j

\* find_by_id: the scan stops at the first record that lacks "id"
\* (c['id'] raises KeyError) or that carries the id.
find_by_id(cs, id) ==
    IF Stops(cs, id) = {} THEN [val |-> "absent", idx |-> 0]
    ELSE LET i == Min(Stops(cs, id))
         IN  IF "id" \notin DOMAIN cs[i]
             THEN [val |-> "KeyError", idx |-> 0]
             ELSE [val |-> "found", idx |-> i]

GeneratedIn(cs) ==
    {n \in 1..nUuid : \E i \in 1..Len(cs) :
        "id" \in DOMAIN cs[i] /\ cs[i]["id"] = uuid4(n)}

NoFields == EmptyDict

\* idkw: update was given an "id" keyword.
Ret(op, b, id, fields, val, saved) ==
    [op |-> op, book |-> b, idkw |-> "id" \in DOMAIN fields,
     val |-> val, saved |-> saved]

(* ------------------------- files at start-up -------------------------- *)

Full(id, name) ==
    <<<<"id", id>>, <<"name", name>>, <<"phone", E>>, <<"email", E>>,
      <<"notes", E>>>>

\* Files a .json path may hold when the first book is constructed: none,
\* text that is not JSON, bytes that are not text, a root that is no array, and arrays whose objects
\* are complete, share an id, lack "id" or other fields, carry another key,
\* or repeat a member.
JsonInitFiles ==
    { NoFile, Garbage(1), Undecodable, JsonRootObject,
      JsonArray(<<>>),
      JsonArray(<<Full(X, A), Full(Y, B)>>),
      JsonArray(<<Full(X, A), Full(X, B)>>),
      JsonArray(<<Full(X, A), <<<<"name", B>>>>, Full(Y, B)>>),
      JsonArray(<<<<<<"id", X>>, <<"name", A>>, <<"extra", B>>>>,
                  <<<<"id", Y>>>>>>),
      JsonArray(<<<<<<"id", X>>, <<"name", A>>, <<"name", B>>>>>>) }

\* Files a .csv path may hold: none, bytes that are not text, an empty file, a table the program
\* wrote, a table with a row whose id is empty, a short row, a blank row and
\* a long row, a header without an id column, and a header in another order.
CsvInitFiles ==
    { NoFile, Undecodable,
      CsvTable(<<>>, <<>>),
      CsvTable(DEFAULT_FIELDS, <<<<X, A, E, E, E>>, <<Y, B, A, E, B>>>>),
      CsvTable(DEFAULT_FIELDS,
               <<<<X, A, E, E, E>>, <<E, B, E, E, E>>, <<Y>>, <<>>,
                 <<X, B, E, E, E, Z>>>>),
      CsvTable(<<"name", "phone">>, <<<<A, B>>>>),
      CsvTable(<<"name", "id", "other">>, <<<<A, X, B>>, <<B>>>>) }

Suffixes == {".json", ".csv"}

InitFiles(sfx) == IF sfx = ".csv" THEN CsvInitFiles ELSE JsonInitFiles

Init ==
    /\ suffix \in Suffixes
    /\ file \in InitFiles(suffix)
    /\ bak \in (IF _parse(_detect_filetype(suffix), file).err # ""
                   /\ file.kind # "absent"
                THEN {NoFile, Garbage(2)} ELSE {NoFile})
    /\ state = [b \in Books |-> "new"]
    /\ contacts = [b \in Books |-> <<>>]
    /\ ret = Ret("none", 0, E, NoFields, "", FALSE)
    /\ nUuid = 0
    /\ nCalls = 0
    /\ fresh = {}
    /\ known = [b \in Books |-> {}]

(* --------------------------- construction ----------------------------- *)

\* _load, the file does not exist: an empty collection is saved.
_load_missing(b) ==
    /\ file.kind = "absent"
    /\ contacts' = [contacts EXCEPT ![b] = <<>>]
    /\ file' = _save(filetype, <<>>)
    /\ ret' = Ret("construct", b, E, NoFields, "created", TRUE)
    /\ fresh' = {b}
    /\ state' = [state EXCEPT ![b] = "open"]
    /\ UNCHANGED bak

\* _load, the file parses: its records become the collection.
_load_ok(b) ==
    /\ file.kind # "absent"
    /\ _parse(filetype, file).err = ""
    /\ contacts' = [contacts EXCEPT ![b] = _parse(filetype, file).data]
    /\ ret' = Ret("construct", b, E, NoFields, "loaded", FALSE)
    /\ fresh' = fresh \cup {b}
    /\ state' = [state EXCEPT ![b] = "open"]
    /\ UNCHANGED <<file, bak>>

\* _load, StorageError from the parse: path is renamed to path.bak (the
\* rename may fail, which is swallowed), the collection is reset and saved.
_load_recover(b) ==
    /\ file.kind # "absent"
    /\ _parse(filetype, file).err \in {"JSONDecodeError", "NotAList"}
    /\ \E renamed \in BOOLEAN :
          /\ bak' = IF renamed THEN file ELSE bak
          /\ ret' = Ret("construct", b, E, NoFields,
                        IF renamed THEN "recovered" ELSE "recovered_no_backup",
                        TRUE)
    /\ contacts' = [contacts EXCEPT ![b] = <<>>]
    /\ file' = _save(filetype, <<>>)
    /\ fresh' = {b}
    /\ state' = [state EXCEPT ![b] = "open"]

\* _load, any other exception of the read (here: the bytes are not UTF-8):
\* StorageError leaves the constructor, no book comes to exist.
_load_fatal(b) ==
    /\ file.kind # "absent"
    /\ _parse(filetype, file).err \notin {"", "JSONDecodeError", "NotAList"}
    /\ ret' = Ret("construct", b, E, NoFields, "StorageError", FALSE)
    /\ UNCHANGED <<file, bak, contacts, fresh, state>>

\* ContactBook(path)
Construct(b) ==
    /\ state[b] = "new"
    /\ \/ _load_missing(b)
       \/ _load_ok(b)
       \/ _load_recover(b)
       \/ _load_fatal(b)
    /\ known' = [known EXCEPT ![b] = GeneratedIn(contacts'[b])]
    /\ UNCHANGED <<suffix, nUuid, nCalls>>

(* ---------------------------- operations ------------------------------ *)

\* A bug that reads the file again before appending.
add_contact_reload(b, name, phone, email, notes) ==
    /\ state[b] = "open"
    /\ nCalls < MaxCalls
    /\ nCalls' = nCalls + 1
    /\ nUuid < MaxUuid
    /\ _parse(filetype, file).err = ""
    /\ LET new_contact ==
               [id |-> uuid4(nUuid + 1), name |-> strip(name),
                phone |-> strip(phone), email |-> strip(email),
                notes |-> strip(notes)]
           cs == Append(_parse(filetype, file).data, new_contact)
       IN  /\ contacts' = [contacts EXCEPT ![b] = cs]
           /\ file' = _save(filetype, cs)
           /\ known' = [known EXCEPT ![b] = @ \cup GeneratedIn(cs) \cup {nUuid + 1}]
    /\ nUuid' = nUuid + 1
    /\ ret' = Ret("add", b, uuid4(nUuid + 1), NoFields, "ok", TRUE)
    /\ fresh' = {b}
    /\ UNCHANGED <<suffix, bak, state>>

add_contact(b, name, phone, email, notes) ==
    /\ state[b] = "open"
    /\ nCalls < MaxCalls
    /\ nCalls' = nCalls + 1
    /\ nUuid < MaxUuid
    /\ LET new_contact ==
               [id |-> uuid4(nUuid + 1), name |-> strip(name),
                phone |-> strip(phone), email |-> strip(email),
                notes |-> strip(notes)]
           cs == Append(contacts[b], new_contact)
       IN  /\ contacts' = [contacts EXCEPT ![b] = cs]
           /\ file' = _save(filetype, cs)
    /\ nUuid' = nUuid + 1
    /\ known' = [known EXCEPT ![b] = @ \cup {nUuid + 1}]
    /\ ret' = Ret("add", b, uuid4(nUuid + 1), NoFields, "ok", TRUE)
    /\ fresh' = {b}
    /\ UNCHANGED <<suffix, bak, state>>

\* find_by_id called on its own.
FindById(b, id) ==
    /\ state[b] = "open"
    /\ nCalls < MaxCalls
    /\ nCalls' = nCalls + 1
    /\ ret' = Ret("find", b, id, NoFields, find_by_id(contacts[b], id).val, FALSE)
    /\ UNCHANGED <<suffix, file, bak, state, contacts, nUuid, fresh, known>>

\* A bug that lets update assign the id as well.
UpdatableKeys_with_id == DEFAULT_FIELDS

\* for key in DEFAULT_FIELDS: if key == "id": continue
UpdatableKeys == SelectSeq(DEFAULT_FIELDS, LAMBDA k : k # "id")

\* The loop of update over the keys, from the i-th on: a key given with a
\* value other than None is assigned when its stripped value differs.
RECURSIVE apply_fields(_, _, _)
apply_fields(c, fields, i) ==
    IF i > Len(UpdatableKeys) THEN c
    ELSE LET key    == UpdatableKeys[i]
             newval == strip(fields[key])
             c1     == IF key \in DOMAIN fields /\ fields[key] # None
                          /\ Get(c, key, E) # newval
                       THEN [k \in DOMAIN c \cup {key} |->
                                IF k = key THEN newval ELSE c[k]]
                       ELSE c
         IN  apply_fields(c1, fields, i + 1)

update(b, id, fields) ==
    /\ state[b] = "open"
    /\ nCalls < MaxCalls
    /\ nCalls' = nCalls + 1
    /\ LET f == find_by_id(contacts[b], id)
       IN  IF f.val # "found"
           THEN /\ ret' = Ret("update", b, id, fields,
                              IF f.val = "absent" THEN "false" ELSE f.val, FALSE)
                /\ UNCHANGED <<contacts, file, fresh>>
           ELSE LET c == apply_fields(contacts[b][f.idx], fields, 1)
                IN  IF c # contacts[b][f.idx]
                    THEN /\ contacts' = [contacts EXCEPT ![b][f.idx] = c]
                         /\ file' = _save(filetype, contacts'[b])
                         /\ fresh' = {b}
                         /\ ret' = Ret("update", b, id, fields, "true", TRUE)
                    ELSE /\ ret' = Ret("update", b, id, fields, "false", FALSE)
                         /\ UNCHANGED <<contacts, file, fresh>>
    /\ UNCHANGED <<suffix, bak, state, nUuid, known>>

\* delete: the comprehension reads c['id'] of every record, so a record
\* without "id" raises KeyError before the collection is assigned.
delete(b, id) ==
    /\ state[b] = "open"
    /\ nCalls < MaxCalls
    /\ nCalls' = nCalls + 1
    /\ LET f  == find_by_id(contacts[b], id)
           cs == contacts[b]
       IN  IF f.val # "found"
           THEN /\ ret' = Ret("delete", b, id, NoFields,
                              IF f.val = "absent" THEN "false" ELSE f.val, FALSE)
                /\ UNCHANGED <<contacts, file, fresh>>
           ELSE IF \E i \in 1..Len(cs) : "id" \notin DOMAIN cs[i]
           THEN /\ ret' = Ret("delete", b, id, NoFields, "KeyError", FALSE)
                /\ UNCHANGED <<contacts, file, fresh>>
           ELSE /\ contacts' = [contacts EXCEPT ![b] =
                                   SelectSeq(cs, LAMBDA c : c["id"] # id)]
                /\ file' = _save(filetype, contacts'[b])
                /\ fresh' = {b}
                /\ ret' = Ret("delete", b, id, NoFields, "true", TRUE)
    /\ UNCHANGED <<suffix, bak, state, nUuid, known>>

(* ------------------------------ inputs -------------------------------- *)

\* Arguments of add_contact: <<name, phone, email, notes>>.
AddArgs ==
    { <<<<" ", "a", "\t">>, <<"b">>, E, E>>,
      <<E, <<" ">>, <<" ", "a">>, <<"\t", "a", " ", "b", "\t">>>> }

\* Ids passed to find_by_id, update and delete: the ids files provide, one
\* no record carries, and the generated ones.
IdArgs == {X, Y, Z} \cup {uuid4(n) : n \in 1..nUuid}

\* Keyword arguments of update.
UpdateArgs ==
    { [name |-> A, email |-> None],
      [name |-> <<" ", "b", " ">>, extra |-> B],
      [id |-> Y, phone |-> <<"b", "\t">>] }

\* The calls a program makes on book b.
Calls(b) ==
    \/ Construct(b)
    \/ \E a \in AddArgs : add_contact(b, a[1], a[2], a[3], a[4])
    \/ \E id \in IdArgs : FindById(b, id)
    \/ \E id \in IdArgs, fields \in UpdateArgs : update(b, id, fields)
    \/ \E id \in IdArgs : delete(b, id)

\* One book owns the file.
Next == Calls(1)

Spec == Init /\ [][Next]_vars

\* Two books are open on the same path.
SharedInitFiles ==
    { NoFile,
      JsonArray(<<Full(X, A), Full(Y, B)>>),
      CsvTable(DEFAULT_FIELDS, <<<<X, A, E, E, E>>, <<Y, B, A, E, B>>>>) }

InitShared == Init /\ file \in SharedInitFiles

NextShared == \E b \in Books : Calls(b)

SpecShared == InitShared /\ [][NextShared]_vars

TypeOK ==
    /\ suffix \in Suffixes
    /\ state \in [Books -> {"new", "open"}]
    /\ nUuid \in 0..MaxUuid
    /\ nCalls \in 0..MaxCalls
    /\ fresh \subseteq Books
    /\ \A b \in Books : known[b] \subseteq 1..nUuid

(* ------------------------- claims: vocabulary ------------------------- *)

HasId(c) == "id" \in DOMAIN c

Ids(cs) == {cs[i]["id"] : i \in {j \in 1..Len(cs) : HasId(cs[j])}}

UniqueIds(cs) ==
    \A i, j \in 1..Len(cs) :
        (i < j /\ HasId(cs[i]) /\ HasId(cs[j])) => cs[i]["id"] # cs[j]["id"]

IdSeq(cs) == [i \in 1..Len(cs) |-> Get(cs[i], "id", None)]

IsPrefix(s, t) == Len(s) <= Len(t) /\ SubSeq(t, 1, Len(s)) = s

RECURSIVE IsSubseq(_, _)
IsSubseq(s, t) ==
    IF s = <<>> THEN TRUE
    ELSE IF t = <<>> THEN FALSE
    ELSE IF Head(s) = Head(t) THEN IsSubseq(Tail(s), Tail(t))
    ELSE IsSubseq(s, Tail(t))

Without(cs, i) == SubSeq(cs, 1, i - 1) \o SubSeq(cs, i + 1, Len(cs))

\* out is txt without its leading and trailing whitespace.
IsTrimOf(out, txt) ==
    /\ out = <<>> \/ (out[1] \notin Whitespace /\ out[Len(out)] \notin Whitespace)
    /\ \E i \in 0..Len(txt) :
          /\ i + Len(out) <= Len(txt)
          /\ SubSeq(txt, i + 1, i + Len(out)) = out
          /\ \A j \in (1..i) \cup ((i + Len(out) + 1)..Len(txt)) :
                txt[j] \in Whitespace

\* What a book constructed now on the same path would load.
Reloaded == _parse(filetype, file)

ReloadedNext == _parse(filetype, file')

Mutable == FieldSet \ {"id"}

(* ------------------------------- claims ------------------------------- *)

\* C1: after any sequence of add, update and delete on a book that owns the
\* file (no other book wrote it since), the file mirrors the collection: a
\* book constructed on the path loads a collection equal to it.
C1_FileMirrorsCollection ==
    \A b \in fresh :
        state[b] = "open" => Reloaded.err = "" /\ Reloaded.data = contacts[b]

C1_Witness ==
    /\ ret.op = "delete" /\ ret.val = "true" /\ ret.book \in fresh
    /\ nUuid >= 1
    /\ Len(contacts[ret.book]) >= 2

CorruptJson(content) ==
    /\ content.kind # "absent"
    /\ ~(content.kind = "json" /\ content.root = "array")

RecoveryDone(b) ==
    /\ ret'.val \in {"recovered", "recovered_no_backup"}
    /\ state'[b] = "open"
    /\ contacts'[b] = <<>>
    /\ file' = JsonArray(<<>>)
    /\ ret'.val = "recovered" => bak' = file
    /\ ret'.val = "recovered_no_backup" => bak' = bak

\* C2 as claimed: constructing a book on an existing JSON-format file whose
\* content is not valid JSON, or whose root is no array, does not fail; the
\* collection is empty, path holds a valid empty store and path.bak the
\* original content, or no backup when the rename failed.
C2_CorruptJsonRecovered ==
    [][\A b \in Books :
          (Construct(b) /\ filetype = "json" /\ CorruptJson(file))
              => RecoveryDone(b)]_vars

\* C3 as claimed: in every reachable state no two records of a collection
\* have the same id.
C3_IdsUnique == \A b \in Books : UniqueIds(contacts[b])

\* C3 amended: a collection whose ids are pairwise distinct keeps them so
\* through add, update and delete, and no call changes the id of a record
\* that is in the collection, update with an id keyword included.
C3_IdsStayUniqueAndFixed ==
    [][\A b \in Books :
          state[b] = "open" =>
              /\ UniqueIds(contacts[b]) => UniqueIds(contacts'[b])
              /\ \/ IsPrefix(IdSeq(contacts[b]), IdSeq(contacts'[b]))
                 \/ IsSubseq(IdSeq(contacts'[b]), IdSeq(contacts[b]))]_vars

C3_Witness ==
    /\ ret.op = "update" /\ ret.idkw /\ ret.val = "true"
    /\ Len(contacts[ret.book]) >= 2
    /\ UniqueIds(contacts[ret.book])

AddPost(b, name, phone, email, notes) ==
    LET old == contacts[b]
        new == contacts'[b]
        r   == new[Len(new)]
    IN  /\ Len(new) = Len(old) + 1
        /\ SubSeq(new, 1, Len(old)) = old
        /\ DOMAIN r = FieldSet
        /\ IsTrimOf(r["name"], name) /\ IsTrimOf(r["phone"], phone)
        /\ IsTrimOf(r["email"], email) /\ IsTrimOf(r["notes"], notes)
        /\ r["id"] \notin Ids(old)
        /\ ret'.val = "ok" /\ ret'.saved
        /\ ReloadedNext.err = "" /\ ReloadedNext.data = new

\* C4: add appends exactly one record whose text fields are the arguments
\* trimmed and whose id no record of the collection has; the records that
\* were there keep their values and order, and the file holds the new
\* collection.
C4_AddAppendsTrimmed ==
    [][\A b \in Books, a \in AddArgs :
          add_contact(b, a[1], a[2], a[3], a[4])
              => AddPost(b, a[1], a[2], a[3], a[4])]_vars

C4_Witness ==
    /\ ret.op = "add"
    /\ Len(contacts[ret.book]) >= 3
    /\ contacts[ret.book][Len(contacts[ret.book])]["name"] = A
    /\ Reloaded.data = contacts[ret.book]

FirstWith(cs, id) == Min({i \in 1..Len(cs) : HasId(cs[i]) /\ cs[i]["id"] = id})

Differs(c, fields) ==
    \E k \in Mutable \cap DOMAIN fields :
        fields[k] # None /\ strip(fields[k]) # Get(c, k, E)

UpdatePost(b, id, fields) ==
    IF Differs(contacts[b][FirstWith(contacts[b], id)], fields)
    THEN /\ ret'.val = "true" /\ ret'.saved
         /\ ReloadedNext.data = contacts'[b]
    ELSE /\ ret'.val = "false" /\ ~ret'.saved
         /\ contacts' = contacts /\ file' = file

\* C5 as claimed: update on an id present in the collection returns true
\* and writes the file iff a given field's trimmed value differs from the
\* stored one; otherwise it returns false and changes and writes nothing.
C5_UpdateTrueIffChanged ==
    [][\A b \in Books, id \in IdArgs, fields \in UpdateArgs :
          (update(b, id, fields) /\ id \in Ids(contacts[b]))
              => UpdatePost(b, id, fields)]_vars

DeletePost(b, id) ==
    /\ ret'.val = "true" /\ ret'.saved
    /\ \E i \in 1..Len(contacts[b]) :
          /\ HasId(contacts[b][i]) /\ contacts[b][i]["id"] = id
          /\ contacts'[b] = Without(contacts[b], i)
    /\ ReloadedNext.data = contacts'[b]

\* C6 as claimed: delete on an id present in the collection returns true,
\* removes exactly that one record, keeps the others with their values and
\* order, and writes the result to the file.
C6_DeleteRemovesOne ==
    [][\A b \in Books, id \in IdArgs :
          (delete(b, id) /\ id \in Ids(contacts[b])) => DeletePost(b, id)]_vars

UnknownIdCall(b, id) ==
    \/ FindById(b, id)
    \/ \E fields \in UpdateArgs : update(b, id, fields)
    \/ delete(b, id)

\* C7 as claimed: for every collection and every id no record carries,
\* find_by_id returns absent and update and delete return false; none of
\* them raises, and the collection and the file stay as they are.
C7_UnknownIdNoError ==
    [][\A b \in Books, id \in IdArgs :
          (UnknownIdCall(b, id) /\ id \notin Ids(contacts[b]))
              => /\ ret'.val \in {"absent", "false"}
                 /\ ~ret'.saved
                 /\ contacts' = contacts /\ file' = file]_vars

MemberSet(ms) == {ms[j] : j \in 1..Len(ms)}

WrittenByLastCall == ret.saved /\ filetype = "json" /\ state[ret.book] = "open"

\* C8 as claimed: every JSON save writes, per record and in order, an
\* object with exactly the five known keys, "" for a key the record lacks.
C8_FiveKeysWritten ==
    WrittenByLastCall =>
        /\ Len(file.items) = Len(contacts[ret.book])
        /\ \A i \in 1..Len(file.items) :
              /\ Len(file.items[i]) = Len(DEFAULT_FIELDS)
              /\ MemberSet(file.items[i]) =
                    {<<k, Get(contacts[ret.book][i], k, E)>> : k \in FieldSet}

\* C8 amended: every JSON save writes, per record and in order, an object
\* with exactly the keys the record has in memory, each with its value.
C8_RecordKeysWritten ==
    WrittenByLastCall =>
        /\ file.kind = "json" /\ file.root = "array"
        /\ Len(file.items) = Len(contacts[ret.book])
        /\ \A i \in 1..Len(file.items) :
              /\ Len(file.items[i]) = Cardinality(DOMAIN contacts[ret.book][i])
              /\ MemberSet(file.items[i]) =
                    {<<k, contacts[ret.book][i][k]>> :
                        k \in DOMAIN contacts[ret.book][i]}

C8_Witness ==
    /\ WrittenByLastCall /\ ret.op = "add"
    /\ \E i \in 1..Len(contacts[ret.book]) :
          /\ "name" \notin DOMAIN contacts[ret.book][i]
          /\ Len(file.items[i]) = 1
    /\ \E i \in 1..Len(contacts[ret.book]) :
          "extra" \in DOMAIN contacts[ret.book][i]

CellAt(header, row, k) ==
    IF \E j \in 1..Len(header) : header[j] = k /\ j <= Len(row)
    THEN row[CHOOSE j \in 1..Len(header) : header[j] = k]
    ELSE E

RowsWithId(content) ==
    SelectSeq(content.rows, LAMBDA r : CellAt(content.header, r, "id") # E)

\* C9: loading a CSV file yields, in row order, one record per row whose id
\* column is not empty, each with exactly the five fields, "" for a column
\* the row lacks.
C9_CsvLoadNormalizes ==
    [][\A b \in Books :
          (Construct(b) /\ filetype = "csv" /\ file.kind = "csv")
              => /\ ret'.val = "loaded"
                 /\ Len(contacts'[b]) = Len(RowsWithId(file))
                 /\ \A i \in 1..Len(contacts'[b]) :
                       /\ DOMAIN contacts'[b][i] = FieldSet
                       /\ \A k \in FieldSet :
                             contacts'[b][i][k] =
                                CellAt(file.header, RowsWithId(file)[i], k)]_vars

C9_Witness ==
    /\ ret.op = "construct" /\ ret.val = "loaded" /\ filetype = "csv"
    /\ Len(file.rows) = 5
    /\ Len(contacts[ret.book]) = 3
    /\ contacts[ret.book][2] =
          [id |-> Y, name |-> E, phone |-> E, email |-> E, notes |-> E]

\* C10: a book never picks up what another book wrote: a call on book b
\* leaves b with ids it had or generated in the call, leaves the other
\* books' collections alone, and a save writes b's whole collection over
\* the file, whatever the file held.
C10_SaveOverwritesUnseen ==
    [][\A b \in Books :
          (state[b] = "open" /\ nCalls' # nCalls /\ ret'.book = b)
              => /\ Ids(contacts'[b]) \subseteq
                       Ids(contacts[b]) \cup {uuid4(nUuid + 1)}
                 /\ \A c \in Books \ {b} : contacts'[c] = contacts[c]
                 /\ ret'.saved => ReloadedNext.data = contacts'[b]]_vars

\* A lost update: b2 added and saved a record after b1 loaded, b1 saved
\* last, and the record is no longer in the file.
C10_Witness ==
    \E b1, b2 \in Books, n \in 1..nUuid :
        /\ b1 # b2 /\ state[b1] = "open" /\ state[b2] = "open"
        /\ fresh = {b1} /\ ret.book = b1 /\ ret.saved
        /\ n \in known[b2] \ known[b1]
        /\ uuid4(n) \in Ids(contacts[b2])
        /\ uuid4(n) \notin Ids(Reloaded.data)
        /\ Reloaded.data = contacts[b1]
        /\ Reloaded.data # contacts[b2]

====
